---- MODULE Spec2Model ----
(***************************************************************************)
(* The task-list feature of CopilotStudyGuide: the useTask hook (the Task  *)
(* Store) of src/src/Components/hooks/useTasks.tsx and the Tasks component *)
(* (the Task View) that renders it.                                        *)
(*                                                                         *)
(* A JSON value is a record [kind, items]: kind "array" carries the        *)
(* elements in items, the other kinds (null, a plain object) carry none.   *)
(* The hook's handlers are callable from the moment the hook has run, so   *)
(* createTask and deleteTask may precede the settlement of the load.       *)
(*                                                                         *)
(* App renders Tasks beside its other exercises; of these the module also  *)
(* covers useToggle, UserForm and PostList, each stepped in a              *)
(* specification of its own.                                               *)
(***************************************************************************)
EXTENDS Integers, Sequences, FiniteSets

\* ---------------------------------------------------------------- bounds
\* Number of distinct numeric ids (values of Math.random() and ids of the payload).
MaxId == 2
\* Longest array the provider answers with.
MaxPayload == 2
\* Number of createTask/deleteTask calls in a run.
MaxCalls == 2
\* Number of calls of useToggle's toggle function in a run.
MaxToggles == 40
\* Number of submits of UserForm in a run.
MaxSubmits == 3

VARIABLES
    tasks,      \* useState<Task[]>([])          the Task Collection (a JSON value)
    loading,    \* useState(true)                the loading flag
    pc,         \* position of getTasks: "fetch", "json", "done"
    outcome,    \* how the load settled: "pending", "success", "rejected", "notOk", "badBody"
    data,       \* const data = await response.json()
    promise,    \* the promise getTasks() returned: "pending", "fulfilled", "rejected"
    crashed,    \* an updater threw: React tore the component tree down
    last,       \* history: the last step taken and the state it started from
    calls,      \* history: number of createTask/deleteTask calls so far
    settledLen, \* history: length of the collection right after the load settled
    nCreate,    \* history: createTask calls since the load settled
    nMatched,   \* history: deleteTask calls since the load settled whose id was present
    draft,      \* Tasks: const [newTask, setNewTask] = useState("")
    ui,         \* history: the user's event behind the last step, if any
    nPending,   \* history: createTask/deleteTask calls made while the load was pending
    fetches,    \* history: number of fetch("./tasks.json") calls issued so far
    captured,   \* the tasks of the last render, which the closures of that render hold
    batch,      \* history: the createTask/deleteTask calls made since the last render
    twin,       \* a second Tasks instance, stepped side by side with the first (SpecTwin)
    isToggled,  \* useToggle: const [isToggled, setToggle] = useState<boolean>(initialValue)
    toggleArg,  \* history: the argument useToggle was called with, or "omitted"
    nToggles,   \* history: number of calls of toggle
    state,      \* UserForm: const [state, setState] = useState({name: "", email: ""})
    formToggle, \* UserForm: const [toggle, setToggle] = useState(false)
    alerts,     \* history: the messages alert() was called with, in order
    formLast,   \* history: UserForm's last event and the state it started from
    nFilled,    \* history: submits made while name and email were both non-empty
    nSubmits,   \* history: number of submits so far
    posts,      \* PostList: useState<Post[]>([])  (a JSON value)
    postsLoading, \* PostList: const [loading, setLoading] = useState(true)
    error,      \* PostList: useState<string | null>(null)
    postsPc,    \* position of fetchList: "fetch", "json", "done"
    postsOutcome, \* how fetchList settled: "pending", "success", "rejected", "notOk", "badBody"
    postsData,  \* PostList: const data = await response.json()
    tornDownAt  \* history: where getTasks was when React unmounted Tasks, or "never"

storeVars == <<tasks, loading, pc, outcome, data, promise, crashed, last, calls,
               settledLen, nCreate, nMatched>>

viewVars == <<draft, ui, nPending, fetches, captured, batch>>

toggleVars == <<isToggled, toggleArg, nToggles>>

formVars == <<state, formToggle, alerts, formLast, nFilled, nSubmits>>

postVars == <<posts, postsLoading, error, postsPc, postsOutcome, postsData>>

\* What App holds besides the state of Tasks: the state of its other children, and
\* whether Tasks is still mounted.
appVars == <<toggleVars, formVars, postVars, tornDownAt>>

vars == <<storeVars, viewVars, twin, appVars>>

\* ------------------------------------------------------------ JSON values
Ids == 1..MaxId

Titles == {"", "a"}

Arr(s) == [kind |-> "array", items |-> s]

Null == [kind |-> "null", items |-> <<>>]

Obj == [kind |-> "object", items |-> <<>>]

NoData == [kind |-> "undefined", items |-> <<>>]

\* interface Task { id; title; description; completed }
Task(id, title, description, completed) ==
    [id |-> id, title |-> title, description |-> description, completed |-> completed]

\* A record of the payload that is an object but not Task-shaped.
Junk == [note |-> "x"]

IsTask(t) == DOMAIN t = {"id", "title", "description", "completed"}

IsArray(v) == v.kind = "array"

\* Task-shaped records the provider can answer with.
PayloadTasks == {Task(i, "m", "", FALSE) : i \in Ids}

PayloadItems == PayloadTasks \cup {Junk}

SeqsUpTo(S, n) == UNION {[1..k -> S] : k \in 0..n}

\* Every body response.json() can resolve with.
Payloads == {Arr(s) : s \in SeqsUpTo(PayloadItems, MaxPayload)} \cup {Null, Obj}

\* --------------------------------------------------------- the updaters
\* Mutant: the new record is put in front, [{...}, ...prev].
appendTask_Prepend(prev, id, newTask) ==
    <<Task(id, newTask, "", TRUE)>> \o prev

\* Mutant: [...prev.map((task) => ({...task, completed: true})), {...}], the tasks
\* already there marked as the new one is.
appendTask_Touch(prev, id, newTask) ==
    Append([i \in 1..Len(prev) |->
               IF "completed" \in DOMAIN prev[i]
                 THEN [prev[i] EXCEPT !.completed = TRUE] ELSE prev[i]],
           Task(id, newTask, "", TRUE))

\* (prev) => [...prev, {id: Math.random(), title: newTask, description: "", completed: true}]
appendTask(prev, id, newTask) ==
    Append(prev, Task(id, newTask, "", TRUE))

\* The value undefined, where a number is expected: no Task id of the model is 0.
Undefined == 0

\* task.id, which is undefined when the record has no id
idOf(task) == IF "id" \in DOMAIN task THEN task.id ELSE Undefined

\* task.title, shown as the empty text when the record has no title
titleOf(task) == IF "title" \in DOMAIN task THEN task.title ELSE ""

\* Mutant: task.id === id, the test inverted.
keepTask_Inverted(task, id) == idOf(task) = id

\* task.id !== id
keepTask(task, id) == idOf(task) # id

\* Mutant: prev.splice(prev.findIndex((task) => task.id === id), 1), which removes the
\* first match only and, findIndex answering -1 when there is none, the last record.
filterTasks_Splice(prev, id) ==
    LET hits == {i \in 1..Len(prev) : "id" \in DOMAIN prev[i] /\ prev[i].id = id}
        at   == IF hits = {} THEN Len(prev) ELSE CHOOSE i \in hits : \A j \in hits : i <= j
    IN  SubSeq(prev, 1, at - 1) \o SubSeq(prev, at + 1, Len(prev))

\* (prev) => prev.filter((task) => task.id !== id)
filterTasks(prev, id) ==
    SelectSeq(prev, LAMBDA task : keepTask(task, id))

\* Mutant: setTasks([...tasks, {...}]) and setTasks(tasks.filter(...)), the array
\* taken from the closure of the render.
updaterBase_Captured(latest, atRender) == atRender

\* setTasks((prev) => ...): React calls the updater with the latest state
updaterBase(latest, atRender) == latest

\* [...prev] and prev.filter throw a TypeError when prev is null or a plain object
updaterThrows(t) == ~IsArray(t)

\* The state handleNewTask leaves: the updater applied, or nothing when it throws.
tasksAfterCreate(t, id, newTask) ==
    IF updaterThrows(t) THEN t ELSE Arr(appendTask(t.items, id, newTask))

\* The state handleDeleteTask leaves: the updater applied, or nothing when it throws.
tasksAfterDelete(t, id) ==
    IF updaterThrows(t) THEN t ELSE Arr(filterTasks(t.items, id))

\* Mutant: setTasks((prev) => [...prev, ...data]), the payload added to what is there.
tasksAfterSuccess_Merge(prev, d) ==
    IF prev.kind = "array" /\ d.kind = "array" THEN Arr(prev.items \o d.items) ELSE d

\* setTasks(data)
tasksAfterSuccess(prev, d) == d

\* Mutant: catch (e) { setTasks(null) }, the collection dropped on failure.
tasksAfterFailure_Null(prev) == Null

\* Mutant: catch (e) { setTasks([]) }, the collection reset on failure.
tasksAfterFailure_Reset(prev) == Arr(<<>>)

\* catch (e) {}  leaves the collection alone
tasksAfterFailure(prev) == prev

\* Mutant: no setLoading(false), the flag left as it is.
loadingAfterSettle_Kept(l) == l

\* finally { setLoading(false) }
loadingAfterSettle(l) == FALSE

\* Mutant: setLoading(false) called before setTasks(data).
successWrites_LoadingFirst(prev, l, d) ==
    <<[tasks |-> prev, loading |-> loadingAfterSettle(l)],
      [tasks |-> tasksAfterSuccess(prev, d), loading |-> loadingAfterSettle(l)]>>

\* setTasks(data), then in finally setLoading(false): the state after each of the two
\* writes. React renders the second one, and the first one too when it does not batch.
successWrites(prev, l, d) ==
    <<[tasks |-> tasksAfterSuccess(prev, d), loading |-> l],
      [tasks |-> tasksAfterSuccess(prev, d), loading |-> loadingAfterSettle(l)]>>

\* Mutant: catch (e) { throw e }, the exception handed on to the caller.
promiseAfterFailure_Rethrown == "rejected"

\* getTasks swallows every exception of its try block, so its promise fulfils
promiseAfterFailure == "fulfilled"

Step(op, title, id) ==
    [op |-> op, title |-> title, id |-> id, before |-> tasks, loadingBefore |-> loading]

\* Some record of s carries id.
HasId(s, id) == \E i \in 1..Len(s) : idOf(s[i]) = id

\* ------------------------------------------------------------- the View
\* Tasks is rendered by App until React unmounts it.
mounted == tornDownAt = "never"

\* Mutant: the effect returns () => controller.abort(), the fetch given the signal.
cleanupCancels_Abort(m) == ~m

\* The effect returns no cleanup function and the fetch is given no signal: unmounting
\* cancels nothing.
cleanupCancels(m) == FALSE

\* Mutant: the early return of the loading branch is missing.
showsControls_Always(l) == TRUE

\* if (loading) return <span>Loading</span>
showsControls(l) == ~l

\* tasks?.map(...): one row per record, keyed by task.id, showing task.title; no row
\* when tasks is null
rowsOf(t) ==
    IF IsArray(t)
      THEN [i \in 1..Len(t.items) |-> [key |-> idOf(t.items[i]), title |-> titleOf(t.items[i])]]
      ELSE <<>>

\* tasks.map is not a function when tasks is a plain object: rendering throws
renderThrows(t, l) == showsControls(l) /\ t.kind = "object"

\* What Tasks returns for the state (tasks, loading, newTask); nothing once torn down.
Render(t, l, d, c) ==
    IF c THEN [state |-> "gone", button |-> FALSE, input |-> FALSE, value |-> "", rows |-> <<>>]
    ELSE IF showsControls(l)
      THEN [state |-> "Ready", button |-> TRUE, input |-> TRUE, value |-> d, rows |-> rowsOf(t)]
      ELSE [state |-> "Loading", button |-> FALSE, input |-> FALSE, value |-> "", rows |-> <<>>]

View == Render(tasks, loading, draft, crashed \/ ~mounted)

\* Mutant: the handler passes the text the input started with.
submittedTitle_Initial(d) == ""

\* onClick={() => handleNewTask(newTask)}
submittedTitle(d) == d

\* Mutant: the handler also calls setNewTask("").
draftAfterSubmit_Cleared(d) == ""

\* the onClick of the button does not call setNewTask
draftAfterSubmit(d) == d

\* Mutant: the row passes its index, onClick={() => handleDeleteTask(index)}.
rowId_Index(t, i) == i

\* onClick={() => handleDeleteTask(task.id)} of row i
rowId(t, i) == idOf(t.items[i])

\* Mutant: useEffect(..., [tasks]), the effect run again whenever tasks changes.
effectDeps_Tasks(t, l) == <<t>>

\* useEffect(..., []): the dependency array
effectDeps(t, l) == <<>>

\* A Tasks instance right after its first render.
TwinInit == [tasks |-> Arr(<<>>), loading |-> TRUE, draft |-> "", crashed |-> FALSE]

NoUi == [event |-> "none", row |-> 0, draftBefore |-> ""]

UiEvent(event, row) == [event |-> event, row |-> row, draftBefore |-> draft]

\* A step taken without the user acting on the View.
NotByView == ui' = NoUi /\ draft' = draft

\* After a step React renders again, and runs the effect again if its dependencies
\* changed; the step is counted when it is a call made while the load is pending.
Rerendered(isCall) ==
    /\ fetches' = fetches + (IF effectDeps(tasks', loading') # effectDeps(tasks, loading)
                               THEN 1 ELSE 0)
    /\ nPending' = IF isCall /\ pc # "done" THEN nPending + 1 ELSE nPending
    /\ captured' = tasks'
    /\ batch' = <<>>

\* ------------------------------------------------------------ useToggle
\* What useToggle can be called with.
ToggleArgs == {"omitted", "false", "true"}

\* (initialValue: boolean = false)
initialValue(arg) == IF arg = "omitted" THEN FALSE ELSE arg = "true"

\* Mutant: setToggle(true), the value set instead of flipped.
toggled_Set(prev) == TRUE

\* setToggle((prev) => !prev)
toggled(prev) == ~prev

\* useToggle(arg): useState<boolean>(initialValue)
useToggle(arg) ==
    /\ toggleArg = arg
    /\ isToggled = initialValue(arg)
    /\ nToggles = 0

\* ------------------------------------------------------------- UserForm
\* What the user can have typed in a field.
Texts == {"", "a"}

\* The name attributes of the two inputs.
Fields == {"name", "email"}

AlertText == "Please fill out all fields."

\* Mutant: if (!state.name), the email not tested.
submitBlocked_NameOnly(s) == s.name = ""

\* if (!state.name || !state.email)
submitBlocked(s) == s.name = "" \/ s.email = ""

\* (prev) => ({...prev, [e.target.name]: e.target.value})
stateAfterInput(prev, field, value) == [prev EXCEPT ![field] = value]

\* {toggle && <p>{[state.name, state.email]}</p>}: the texts of the paragraph, none
\* when there is no paragraph
shown(s, t) == IF t THEN <<s.name, s.email>> ELSE <<>>

Shown == shown(state, formToggle)

FormStep(op) ==
    [op |-> op, before |-> state, toggleBefore |-> formToggle, alertsBefore |-> alerts]

\* UserForm after its first render.
InitForm ==
    /\ state = [name |-> "", email |-> ""]
    /\ formToggle = FALSE
    /\ alerts = <<>>
    /\ formLast = [op |-> "init", before |-> [name |-> "", email |-> ""],
                   toggleBefore |-> FALSE, alertsBefore |-> <<>>]
    /\ nFilled = 0
    /\ nSubmits = 0

\* ------------------------------------------------------------- PostList
\* interface Post { userId; id; title; body }
Post(userId, id, title, body) ==
    [userId |-> userId, id |-> id, title |-> title, body |-> body]

\* Posts the API can answer with.
PostItems == {Post(1, i, "p", "") : i \in Ids}

\* Every body response.json() can resolve with.
PostBodies == {Arr(s) : s \in SeqsUpTo(PostItems, MaxPayload)} \cup {Null, Obj}

\* useState<string | null>(null)
NoError == [kind |-> "null", text |-> ""]

Message(m) == [kind |-> "string", text |-> m]

\* The message of the TypeError a failing fetch rejects with: the wording is the
\* browser's, and is not empty.
RejectMessages == {"Failed to fetch"}

\* throw new Error("Failed to fetch posts")
NotOkMessage == "Failed to fetch posts"

\* The message of the SyntaxError response.json() rejects with.
BadBodyMessage == "Unexpected token"

\* if (error): null and the empty text are falsy
truthy(e) == e.kind = "string" /\ e.text # ""

\* Mutant: catch (e) {}, the message not kept.
errorAfterFailure_Swallowed(prev, m) == prev

\* catch (e) { setError((e as Error).message) }
errorAfterFailure(prev, m) == Message(m)

\* setPosts(data)
postsAfterSuccess(prev, d) == d

\* What PostList returns for the state (posts, loading, error); nothing when posts.map
\* throws, posts being null or a plain object.
PostRender(p, l, e) ==
    IF l THEN [shows |-> "loading", message |-> "", items |-> <<>>]
    ELSE IF truthy(e) THEN [shows |-> "error", message |-> e.text, items |-> <<>>]
    ELSE IF ~IsArray(p) THEN [shows |-> "gone", message |-> "", items |-> <<>>]
    ELSE [shows |-> "list", message |-> "", items |-> rowsOf(p)]

PostView == PostRender(posts, postsLoading, error)

\* PostList after its first render: the effect has run and the fetch is on its way.
InitPosts ==
    /\ posts = Arr(<<>>)
    /\ postsLoading = TRUE
    /\ error = NoError
    /\ postsPc = "fetch"
    /\ postsOutcome = "pending"
    /\ postsData = NoData

\* ------------------------------------------------------------------ Init
\* Tasks after its first render: the effect has run and the fetch is on its way.
InitTasks ==
    /\ tasks = Arr(<<>>)
    /\ loading = TRUE
    /\ pc = "fetch"
    /\ outcome = "pending"
    /\ data = NoData
    /\ promise = "pending"
    /\ crashed = FALSE
    /\ last = [op |-> "init", title |-> "", id |-> 0, before |-> Arr(<<>>),
               loadingBefore |-> TRUE]
    /\ calls = 0
    /\ settledLen = 0
    /\ nCreate = 0
    /\ nMatched = 0
    /\ draft = ""
    /\ ui = NoUi
    /\ nPending = 0
    /\ fetches = 1
    /\ captured = Arr(<<>>)
    /\ batch = <<>>
    /\ twin = TwinInit
    /\ tornDownAt = "never"

\* App: <Tasks /> and const [isToggled, setToggle] = useToggle()
Init == InitTasks /\ useToggle("omitted") /\ InitForm /\ InitPosts

\* --------------------------------------------------------------- actions
\* handleNewTask(newTask): the id is what Math.random() returns.
handleNewTask(newTask, id) ==
    /\ ~crashed
    /\ calls < MaxCalls
    /\ calls' = calls + 1
    /\ last' = Step("create", newTask, id)
    /\ tasks' = tasksAfterCreate(updaterBase(tasks, captured), id, newTask)
    /\ crashed' = updaterThrows(updaterBase(tasks, captured))
    /\ nCreate' = IF pc = "done" THEN nCreate + 1 ELSE nCreate
    /\ UNCHANGED <<loading, pc, outcome, data, promise, settledLen, nMatched>>

\* handleDeleteTask(id)
handleDeleteTask(id) ==
    /\ ~crashed
    /\ calls < MaxCalls
    /\ calls' = calls + 1
    /\ last' = Step("delete", "", id)
    /\ tasks' = tasksAfterDelete(updaterBase(tasks, captured), id)
    /\ crashed' = updaterThrows(updaterBase(tasks, captured))
    /\ nMatched' = IF pc = "done" /\ IsArray(tasks) /\ HasId(tasks.items, id)
                     THEN nMatched + 1 ELSE nMatched
    /\ UNCHANGED <<loading, pc, outcome, data, promise, settledLen, nCreate>>

\* The catch and finally blocks: every failure of the try block ends here.
loadFailure(kind) ==
    /\ tasks' = tasksAfterFailure(tasks)
    /\ loading' = loadingAfterSettle(loading)
    /\ pc' = "done"
    /\ outcome' = kind
    /\ promise' = promiseAfterFailure
    /\ last' = Step("loadFailure", "", 0)
    /\ settledLen' = IF IsArray(tasks') THEN Len(tasks'.items) ELSE 0
    /\ UNCHANGED <<data, crashed, calls, nCreate, nMatched>>

\* await fetch("./tasks.json") rejects (network failure).
FetchRejects ==
    /\ pc = "fetch"
    /\ loadFailure("rejected")

\* await fetch("./tasks.json") resolves; if (!response.ok) throw new Error("error").
FetchResolves(ok) ==
    /\ pc = "fetch"
    /\ IF ok
         THEN /\ pc' = "json"
              /\ last' = Step("response", "", 0)
              /\ UNCHANGED <<tasks, loading, outcome, data, promise, crashed, calls,
                             settledLen, nCreate, nMatched>>
         ELSE loadFailure("notOk")

\* await response.json() rejects: the body is not parsable.
JsonRejects ==
    /\ pc = "json"
    /\ loadFailure("badBody")

\* await response.json() resolves with d; setTasks(data); finally setLoading(false).
JsonResolves(d) ==
    /\ pc = "json"
    /\ data' = d
    /\ tasks' = successWrites(tasks, loading, d)[2].tasks
    /\ loading' = successWrites(tasks, loading, d)[2].loading
    /\ pc' = "done"
    /\ outcome' = "success"
    /\ promise' = "fulfilled"
    /\ last' = Step("loadSuccess", "", 0)
    /\ settledLen' = IF IsArray(tasks') THEN Len(tasks'.items) ELSE 0
    /\ crashed' = (mounted /\ renderThrows(tasks', loading'))
    /\ UNCHANGED <<calls, nCreate, nMatched>>

\* What a step of the first instance leaves alone.
Others == UNCHANGED <<twin, appVars>>

\* createTask(title), called on the Store.
createTask(title) ==
    /\ \E id \in Ids : handleNewTask(title, id)
    /\ NotByView
    /\ Rerendered(TRUE)
    /\ Others

\* deleteTask(id), called on the Store.
deleteTask(id) ==
    /\ handleDeleteTask(id)
    /\ NotByView
    /\ Rerendered(TRUE)
    /\ Others

\* The user activates the "new task" button; id is what Math.random() returns.
onClickNewTask(id) ==
    /\ View.button
    /\ handleNewTask(submittedTitle(draft), id)
    /\ draft' = draftAfterSubmit(draft)
    /\ ui' = UiEvent("new", 0)
    /\ Rerendered(TRUE)

ClickNewTask == (\E id \in Ids : onClickNewTask(id)) /\ Others

\* The user activates row i.
onClickRow(i) ==
    /\ i \in 1..Len(View.rows)
    /\ handleDeleteTask(rowId(tasks, i))
    /\ draft' = draft
    /\ ui' = UiEvent("row", i)
    /\ Rerendered(TRUE)

ClickRow(i) == onClickRow(i) /\ Others

\* The user edits the input: onChange={(e) => setNewTask(e.target.value)}.
onChange(value) ==
    /\ View.input
    /\ value # draft
    /\ draft' = value
    /\ ui' = UiEvent("edit", 0)
    /\ last' = Step("edit", value, 0)
    /\ UNCHANGED <<tasks, loading, pc, outcome, data, promise, crashed, calls,
                   settledLen, nCreate, nMatched>>
    /\ Rerendered(FALSE)

EditDraft(value) == onChange(value) /\ Others

\* A step of getTasks: the fetch or the reading of the body settles.
LoadStep(A) == A /\ NotByView /\ Rerendered(FALSE) /\ Others

\* Rows a View can show.
RowIndex == 1..(MaxPayload + MaxCalls)

Next ==
    \/ \E title \in Titles : createTask(title)
    \/ \E id \in Ids : deleteTask(id)
    \/ ClickNewTask
    \/ \E i \in RowIndex : ClickRow(i)
    \/ \E value \in Titles : EditDraft(value)
    \/ LoadStep(FetchRejects)
    \/ \E ok \in BOOLEAN : LoadStep(FetchResolves(ok))
    \/ LoadStep(JsonRejects)
    \/ \E d \in Payloads : LoadStep(JsonResolves(d))

Spec == Init /\ [][Next]_vars

\* The reading of the body, once begun, settles: response.json() resolves or rejects.
BodySettles ==
    \/ LoadStep(JsonRejects)
    \/ \E d \in Payloads : LoadStep(JsonResolves(d))

\* The Store alone: the calls made on the hook and the steps of getTasks.
NextStore ==
    \/ \E title \in Titles : createTask(title)
    \/ \E id \in Ids : deleteTask(id)
    \/ LoadStep(FetchRejects)
    \/ \E ok \in BOOLEAN : LoadStep(FetchResolves(ok))
    \/ BodySettles

\* The runs of the Store in which the provider does not leave the body unread for ever.
SpecLive == Init /\ [][NextStore]_vars /\ WF_vars(BodySettles)

\* ------------------------------------------------- two runs side by side
\* The first instance is the one whose load fails; the second one, twin, is given a
\* successful load of zero tasks. Once both Views offer a control the user acts on
\* both alike, and Math.random() returns the same number in both.
TwinView == Render(twin.tasks, twin.loading, twin.draft, twin.crashed)

\* getTasks of the first instance, on the paths that end in a failure.
TwinLoadFails ==
    /\ \/ FetchRejects
       \/ \E ok \in BOOLEAN : FetchResolves(ok)
       \/ JsonRejects
    /\ NotByView
    /\ Rerendered(FALSE)
    /\ twin' = twin
    /\ UNCHANGED appVars

\* getTasks of the second instance: response.json() resolves with [].
TwinLoadsNothing ==
    /\ twin.loading
    /\ twin' = [twin EXCEPT !.tasks = tasksAfterSuccess(twin.tasks, Arr(<<>>)),
                            !.loading = loadingAfterSettle(twin.loading),
                            !.crashed = renderThrows(tasksAfterSuccess(twin.tasks, Arr(<<>>)),
                                                     loadingAfterSettle(twin.loading))]
    /\ UNCHANGED <<storeVars, viewVars, appVars>>

TwinClickNewTask ==
    /\ UNCHANGED appVars
    /\ TwinView.button
    /\ \E id \in Ids :
          /\ onClickNewTask(id)
          /\ twin' = [twin EXCEPT
                        !.tasks = tasksAfterCreate(twin.tasks, id, submittedTitle(twin.draft)),
                        !.crashed = updaterThrows(twin.tasks),
                        !.draft = draftAfterSubmit(twin.draft)]

TwinClickRow(i) ==
    /\ UNCHANGED appVars
    /\ i \in 1..Len(TwinView.rows)
    /\ onClickRow(i)
    /\ twin' = [twin EXCEPT !.tasks = tasksAfterDelete(twin.tasks, rowId(twin.tasks, i)),
                            !.crashed = updaterThrows(twin.tasks)]

TwinEditDraft(value) ==
    /\ UNCHANGED appVars
    /\ TwinView.input
    /\ onChange(value)
    /\ twin' = [twin EXCEPT !.draft = value]

NextTwin ==
    \/ TwinLoadFails
    \/ TwinLoadsNothing
    \/ TwinClickNewTask
    \/ \E i \in RowIndex : TwinClickRow(i)
    \/ \E value \in Titles : TwinEditDraft(value)

SpecTwin == Init /\ [][NextTwin]_vars

\* ------------------------------------------------------ useToggle alone
\* const toggle = () => { setToggle((prev) => !prev) }
toggle ==
    /\ nToggles < MaxToggles
    /\ isToggled' = toggled(isToggled)
    /\ nToggles' = nToggles + 1
    /\ UNCHANGED <<toggleArg, storeVars, viewVars, twin, formVars, postVars, tornDownAt>>

InitToggle == InitTasks /\ InitForm /\ InitPosts /\ \E arg \in ToggleArgs : useToggle(arg)

NextToggle == toggle

SpecToggle == InitToggle /\ [][NextToggle]_vars

\* --------------------------------------------- the Store and a teardown
\* React unmounts Tasks: the hook's state goes with it, the running getTasks does not.
Unmount ==
    /\ mounted
    /\ tornDownAt' = pc
    /\ UNCHANGED <<storeVars, viewVars, twin, toggleVars, formVars, postVars>>

\* A step of getTasks, which can come after Tasks was unmounted.
LateLoadStep(A) == ~cleanupCancels(mounted) /\ LoadStep(A)

FetchSettles ==
    \/ LateLoadStep(FetchRejects)
    \/ \E ok \in BOOLEAN : LateLoadStep(FetchResolves(ok))

LateBodySettles ==
    \/ LateLoadStep(JsonRejects)
    \/ \E d \in Payloads : LateLoadStep(JsonResolves(d))

NextTeardown ==
    \/ \E title \in Titles : mounted /\ createTask(title)
    \/ \E id \in Ids : mounted /\ deleteTask(id)
    \/ Unmount
    \/ FetchSettles
    \/ LateBodySettles

\* The runs in which the provider answers: a fetch or a body read that stays possible
\* settles.
SpecTeardown ==
    Init /\ [][NextTeardown]_vars /\ WF_vars(FetchSettles) /\ WF_vars(LateBodySettles)

\* ------------------------------------- the Store, calls made back to back
\* A call made in the same event as the calls of batch: React has not rendered since,
\* and the closures still hold the tasks of the last render.
NotRerendered(call) ==
    /\ fetches' = fetches
    /\ nPending' = IF pc # "done" THEN nPending + 1 ELSE nPending
    /\ captured' = captured
    /\ batch' = Append(batch, call)

callCreate(title) ==
    /\ \E id \in Ids :
          /\ handleNewTask(title, id)
          /\ NotRerendered([op |-> "create", title |-> title, id |-> id])
    /\ NotByView
    /\ Others

callDelete(id) ==
    /\ handleDeleteTask(id)
    /\ NotRerendered([op |-> "delete", title |-> "", id |-> id])
    /\ NotByView
    /\ Others

\* The event is over: React renders with the state the calls left.
Rerender ==
    /\ batch # <<>>
    /\ captured' = tasks
    /\ batch' = <<>>
    /\ UNCHANGED <<storeVars, draft, ui, nPending, fetches, twin, appVars>>

\* getTasks goes on between events, never within one.
BetweenEvents(A) == batch = <<>> /\ LoadStep(A)

NextBatch ==
    \/ \E title \in Titles : callCreate(title)
    \/ \E id \in Ids : callDelete(id)
    \/ Rerender
    \/ BetweenEvents(FetchRejects)
    \/ \E ok \in BOOLEAN : BetweenEvents(FetchResolves(ok))
    \/ BetweenEvents(JsonRejects)
    \/ \E d \in Payloads : BetweenEvents(JsonResolves(d))

SpecBatch == Init /\ [][NextBatch]_vars

\* ------------------------------------------- UserForm and PostList alone
\* onChange={(e) => handleInputs(e)} of the input named field, the user having made
\* its text value.
handleInputs(field, value) ==
    /\ value # state[field]
    /\ state' = stateAfterInput(state, field, value)
    /\ formLast' = FormStep("input")
    /\ UNCHANGED <<formToggle, alerts, nFilled, nSubmits>>
    /\ UNCHANGED <<storeVars, viewVars, twin, toggleVars, postVars, tornDownAt>>

\* onSubmit={handleSubmit}
handleSubmit ==
    /\ nSubmits < MaxSubmits
    /\ nSubmits' = nSubmits + 1
    /\ nFilled' = IF state.name # "" /\ state.email # "" THEN nFilled + 1 ELSE nFilled
    /\ formLast' = FormStep("submit")
    /\ IF submitBlocked(state)
         THEN /\ alerts' = Append(alerts, AlertText)
              /\ formToggle' = formToggle
         ELSE /\ alerts' = alerts
              /\ formToggle' = TRUE
    /\ state' = state
    /\ UNCHANGED <<storeVars, viewVars, twin, toggleVars, postVars, tornDownAt>>

\* The catch and finally blocks of fetchList, e.message being m.
postsFailure(kind, m) ==
    /\ error' = errorAfterFailure(error, m)
    /\ postsLoading' = FALSE
    /\ postsPc' = "done"
    /\ postsOutcome' = kind
    /\ UNCHANGED <<posts, postsData>>

\* await fetch(...) rejects.
PostsFetchRejects(m) ==
    /\ postsPc = "fetch"
    /\ postsFailure("rejected", m)
    /\ UNCHANGED <<storeVars, viewVars, twin, toggleVars, formVars, tornDownAt>>

\* await fetch(...) resolves; if (!response.ok) throw new Error("Failed to fetch posts").
PostsFetchResolves(ok) ==
    /\ postsPc = "fetch"
    /\ IF ok
         THEN /\ postsPc' = "json"
              /\ UNCHANGED <<posts, postsLoading, error, postsOutcome, postsData>>
         ELSE postsFailure("notOk", NotOkMessage)
    /\ UNCHANGED <<storeVars, viewVars, twin, toggleVars, formVars, tornDownAt>>

\* await response.json() rejects.
PostsJsonRejects ==
    /\ postsPc = "json"
    /\ postsFailure("badBody", BadBodyMessage)
    /\ UNCHANGED <<storeVars, viewVars, twin, toggleVars, formVars, tornDownAt>>

\* await response.json() resolves with d; setPosts(data); finally setLoading(false).
PostsJsonResolves(d) ==
    /\ postsPc = "json"
    /\ postsData' = d
    /\ posts' = postsAfterSuccess(posts, d)
    /\ postsLoading' = FALSE
    /\ postsPc' = "done"
    /\ postsOutcome' = "success"
    /\ error' = error
    /\ UNCHANGED <<storeVars, viewVars, twin, toggleVars, formVars, tornDownAt>>

NextApp ==
    \/ \E field \in Fields, value \in Texts : handleInputs(field, value)
    \/ handleSubmit
    \/ \E m \in RejectMessages : PostsFetchRejects(m)
    \/ \E ok \in BOOLEAN : PostsFetchResolves(ok)
    \/ PostsJsonRejects
    \/ \E d \in PostBodies : PostsJsonResolves(d)

SpecApp == Init /\ [][NextApp]_vars

\* ----------------------------------------------------------------- claims
settled == pc = "done"

\* Ids of the Task-shaped records of a sequence, in order.
IdsAt(s) == {i \in 1..Len(s) : "id" \in DOMAIN s[i]}

\* s without the records carrying id, the others in their order (by recursion on s).
RECURSIVE RemoveId(_, _)
RemoveId(s, id) ==
    IF s = <<>> THEN <<>>
    ELSE LET rest == RemoveId(Tail(s), id)
         IN  IF idOf(Head(s)) = id THEN rest ELSE <<Head(s)>> \o rest

\* C1: loading is true in every state in which the load has not settled, and false in
\* every state after it settled, whatever createTask/deleteTask calls were made.
C1_LoadingIffPending == loading <=> ~settled

C1_Witness == settled /\ ~loading /\ nCreate > 0 /\ nMatched > 0

\* C2: after the load settled, the collection's length is the length at settlement
\* plus the createTask calls minus the deleteTask calls whose id was present.
C2_LengthAccounting ==
    (settled /\ IsArray(tasks) /\ ~crashed)
        => Len(tasks.items) = settledLen + nCreate - nMatched

\* C3: no two tasks present in the collection carry the same id.
C3_UniqueIds ==
    IsArray(tasks)
        => \A i, j \in IdsAt(tasks.items) : i # j => tasks.items[i].id # tasks.items[j].id

\* C4: createTask(t) yields the previous collection followed by exactly one new record,
\* with title t, description "" and completed true.
C4_CreateAppends ==
    (last.op = "create" /\ IsArray(last.before))
        => /\ IsArray(tasks)
           /\ Len(tasks.items) = Len(last.before.items) + 1
           /\ SubSeq(tasks.items, 1, Len(last.before.items)) = last.before.items
           /\ LET new == tasks.items[Len(tasks.items)]
              IN  /\ IsTask(new)
                  /\ new.title = last.title
                  /\ new.description = ""
                  /\ new.completed = TRUE

C4_Witness ==
    /\ last.op = "create"
    /\ last.title = ""
    /\ IsArray(last.before)
    /\ Len(last.before.items) = 1
    /\ Len(tasks.items) = 2
    /\ IsTask(tasks.items[1])
    /\ tasks.items[1].completed = FALSE

\* C5: deleteTask(id) removes the task whose id matches and leaves the remaining tasks
\* in their previous relative order.
C5_DeleteRemoves ==
    (last.op = "delete" /\ IsArray(last.before))
        => /\ IsArray(tasks)
           /\ ~HasId(tasks.items, last.id)
           /\ tasks.items = RemoveId(last.before.items, last.id)

\* Scenario D: deleting id 1 from [task 1, new task] leaves [new task].
C5_Witness ==
    /\ last.op = "delete"
    /\ last.id = 1
    /\ IsArray(last.before)
    /\ Len(last.before.items) = 2
    /\ last.before.items[1] = Task(1, "m", "", FALSE)
    /\ tasks = Arr(<<Task(2, "a", "", TRUE)>>)

\* C6: deleteTask(id) with an id no task carries leaves the collection and the loading
\* flag unchanged, and is not an error.
C6_DeleteAbsentNoOp ==
    (last.op = "delete" /\ IsArray(last.before) /\ ~HasId(last.before.items, last.id))
        => /\ tasks = last.before
           /\ loading = last.loadingBefore
           /\ ~crashed

C6_Witness ==
    /\ last.op = "delete"
    /\ IsArray(last.before)
    /\ Len(last.before.items) = 2
    /\ ~HasId(last.before.items, last.id)
    /\ tasks = last.before

\* C7: when the fetch succeeds, the collection right after the load settles is exactly
\* the fetched payload, whatever the collection held before, and loading is false.
C7_SuccessInstallsPayload ==
    last.op = "loadSuccess" => (tasks = data /\ data \in Payloads /\ loading = FALSE)

C7_Witness ==
    /\ last.op = "loadSuccess"
    /\ Len(last.before.items) > 0
    /\ data = Arr(<<Task(1, "m", "", FALSE)>>)
    /\ tasks = data

\* C8: when the load fails, the collection is what it was just before the failure was
\* handled, the exposed state shows no error, and getTasks() does not reject.
C8_FailureAbsorbed ==
    last.op = "loadFailure"
        => /\ outcome \in {"rejected", "notOk", "badBody"}
           /\ tasks = last.before
           /\ promise = "fulfilled"
           /\ ~crashed

C8_Witness ==
    /\ last.op = "loadFailure"
    /\ outcome = "badBody"
    /\ Len(last.before.items) > 0
    /\ tasks = last.before

\* C9 as stated: right after a load that did not succeed settles, the collection is
\* empty and loading is false, for every interleaving of Store calls with the load.
C9_FailureEndsEmpty ==
    last.op = "loadFailure" => (tasks = Arr(<<>>) /\ loading = FALSE)

\* C9 amended: right after a load that did not succeed settles, loading is false and the
\* collection is what the createTask/deleteTask calls made while the load was pending
\* left in it: empty when no such call was made.
C9_FailureKeepsPending ==
    last.op = "loadFailure"
        => /\ loading = FALSE
           /\ tasks = last.before
           /\ calls = 0 => tasks = Arr(<<>>)

C9_Witness ==
    /\ last.op = "loadFailure"
    /\ outcome = "notOk"
    /\ calls = 2
    /\ Len(tasks.items) = 1
    /\ loading = FALSE

\* A body that is a sequence of Task-shaped records.
WellFormed(v) == IsArray(v) /\ \A i \in 1..Len(v.items) : IsTask(v.items[i])

\* C10: a load whose body is not parsable, or is not a sequence of Task-shaped records,
\* ends with the collection unchanged and loading false.
C10_MalformedIsFailure ==
    (settled /\ last.op \in {"loadSuccess", "loadFailure"}
        /\ (outcome = "badBody" \/ (outcome = "success" /\ ~WellFormed(data))))
        => (tasks = last.before /\ loading = FALSE)

\* C12: over the lifetime of the Store exactly one fetch is issued, at creation; no
\* createTask, deleteTask, re-render or load failure issues another.
C12_OneFetch == fetches = 1

C12_Witness == fetches = 1 /\ outcome = "notOk" /\ nCreate = 1 /\ nMatched = 1

\* C14: while loading is true the View shows only the loading indicator (no button, no
\* input, no row), so no createTask or deleteTask issued through the View started from
\* a state in which loading was true.
C14_LoadingShowsOnlyIndicator ==
    /\ (loading /\ ~crashed)
          => (View.state = "Loading" /\ ~View.button /\ ~View.input /\ View.rows = <<>>)
    /\ ui.event \in {"new", "row", "edit"} => last.loadingBefore = FALSE

C14_Witness ==
    /\ loading
    /\ IsArray(tasks)
    /\ Len(tasks.items) = 2
    /\ View.state = "Loading"
    /\ View.rows = <<>>

\* C15: activating the new-task trigger calls createTask with the draft as it is at that
\* moment, so the task appended to the collection has the draft as its title, and
\* leaves the draft unchanged.
C15_SubmitUsesDraft ==
    ui.event = "new"
        => /\ last.op = "create"
           /\ last.title = ui.draftBefore
           /\ draft = ui.draftBefore
           /\ IsArray(last.before) =>
                 /\ Len(tasks.items) = Len(last.before.items) + 1
                 /\ tasks.items[Len(tasks.items)].title = draft

\* The trigger activated after another create with the same draft: two tasks titled alike.
C15_Witness ==
    /\ ui.event = "new"
    /\ draft = "a"
    /\ Len(tasks.items) = 2
    /\ last.before.items = <<tasks.items[1]>>
    /\ IsTask(tasks.items[1])
    /\ tasks.items[1].title = "a"
    /\ tasks.items[2].title = "a"
    /\ tasks.items[1].completed = TRUE

\* C16: activating a rendered row calls deleteTask with the id of the task that row
\* displays, and with no other id.
C16_RowDeletesItsTask ==
    ui.event = "row"
        => /\ last.op = "delete"
           /\ IsArray(last.before)
           /\ ui.row \in 1..Len(last.before.items)
           /\ last.id = idOf(last.before.items[ui.row])
           /\ last.id = rowsOf(last.before)[ui.row].key

C16_Witness ==
    /\ ui.event = "row"
    /\ ui.row = 1
    /\ last.id = 2
    /\ Len(last.before.items) = 2
    /\ idOf(last.before.items[2]) = 1
    /\ Len(tasks.items) = 1

\* C17: from every reachable state, each createTask or deleteTask call completes without
\* throwing and leaves a well-formed sequence of tasks in the Store.
C17_CallsNeverFail ==
    last.op \in {"create", "delete"} => (~crashed /\ WellFormed(tasks))

C19_DraftIndependent ==
    [][/\ draft' # draft => (tasks' = tasks /\ loading' = loading)
       /\ tasks' # tasks => (last'.op \in {"create", "delete", "loadSuccess"}
                              /\ draft' = draft)]_vars

C19_Witness ==
    /\ ui.event = "edit"
    /\ draft = "a"
    /\ ui.draftBefore = ""
    /\ IsArray(tasks)
    /\ Len(tasks.items) = 2
    /\ tasks = last.before

\* C13: once the provider's fetch has settled, with success or with any failure, the
\* Store reaches loading = false; and loading changes only from true to false, in the
\* step in which the load settles, hence exactly once.
C13_LoadingClearsOnce ==
    /\ (pc # "fetch") ~> (loading = FALSE)
    /\ [][loading' # loading => (loading /\ ~loading' /\ pc # "done" /\ pc' = "done")]_vars

C13_Witness == outcome = "badBody" /\ loading = FALSE /\ nPending = 1 /\ nCreate = 1

\* C11: a run whose load fails and a run whose load succeeds with zero tasks, stepped
\* side by side under the same user actions, show the same View in every state in
\* which both loads have settled.
C11_FailureLooksLikeEmpty ==
    (pc = "done" /\ ~twin.loading) => View = TwinView

C11_Witness ==
    /\ pc = "done"
    /\ outcome = "badBody"
    /\ ~twin.loading
    /\ ui.event = "row"
    /\ calls = 2
    /\ View.state = "Ready"
    /\ View.rows = <<>>
    /\ View.value = "a"

\* C20: useToggle starts at the given initial value, false when omitted, and after n
\* calls of toggle the value is the initial value when n is even and its negation when
\* n is odd.
C20_ToggleParity ==
    LET start == (toggleArg = "true")
    IN  isToggled = (IF nToggles % 2 = 0 THEN start ELSE ~start)

C20_Witness == toggleArg = "omitted" /\ nToggles = 3 /\ isToggled = TRUE

\* C21: UserForm shows the entered name and email only after a submit made while both
\* were non-empty; such a submit shows them and raises no alert; a submit with an empty
\* name or email raises the "fill out all fields" alert and changes neither the fields
\* nor whether the values are shown.
C21_ShownAfterFilledSubmit ==
    /\ Shown # <<>> => (nFilled > 0 /\ Shown = <<state.name, state.email>>)
    /\ formLast.op = "submit" =>
          IF formLast.before.name # "" /\ formLast.before.email # ""
            THEN /\ Shown = <<formLast.before.name, formLast.before.email>>
                 /\ alerts = formLast.alertsBefore
            ELSE /\ alerts = Append(formLast.alertsBefore, AlertText)
                 /\ formToggle = formLast.toggleBefore
                 /\ state = formLast.before

\* A submit with the email still empty, then one with both fields filled.
C21_Witness ==
    /\ formLast.op = "submit"
    /\ alerts = <<AlertText>>
    /\ formLast.toggleBefore = FALSE
    /\ Shown = <<"a", "a">>

\* C22: PostList shows the loading indicator until its fetch settles and never again;
\* after a fetch that answered with posts it shows them in order and no error; after a
\* failed fetch (a rejection, a status that is not ok, an unreadable body) it shows the
\* error message and no list.
C22_PostListShows ==
    /\ postsPc # "done" => PostView = [shows |-> "loading", message |-> "", items |-> <<>>]
    /\ postsPc = "done" => (~postsLoading /\ PostView.shows # "loading")
    /\ (postsOutcome = "success" /\ IsArray(postsData)) =>
          /\ PostView.shows = "list"
          /\ PostView.message = ""
          /\ Len(PostView.items) = Len(postsData.items)
          /\ \A i \in 1..Len(postsData.items) :
                 PostView.items[i] = [key |-> postsData.items[i].id,
                                      title |-> postsData.items[i].title]
    /\ postsOutcome \in {"rejected", "notOk", "badBody"} =>
          /\ PostView.shows = "error"
          /\ PostView.message # ""
          /\ PostView.items = <<>>
          /\ postsOutcome = "notOk" => PostView.message = NotOkMessage

C22_Witness ==
    /\ postsOutcome = "notOk"
    /\ PostView.shows = "error"
    /\ PostView.message = "Failed to fetch posts"
    /\ posts = Arr(<<>>)

\* C23: the collection is empty and loading is true in the initial state; the collection
\* is replaced wholesale at most once, in the step in which the load settles with
\* success, and every other step that changes it appends exactly one task at the end
\* (create) or removes the tasks carrying one id (delete).
C23_ReplacedAtMostOnce ==
    /\ tasks = Arr(<<>>) /\ loading = TRUE
    /\ [][pc = "done" => pc' = "done"]_vars
    /\ [][tasks' # tasks =>
             \/ /\ last'.op = "loadSuccess"
                /\ pc # "done"
                /\ pc' = "done"
                /\ tasks' = data'
             \/ /\ last'.op = "create"
                /\ IsArray(tasks) /\ IsArray(tasks')
                /\ Len(tasks'.items) = Len(tasks.items) + 1
                /\ SubSeq(tasks'.items, 1, Len(tasks.items)) = tasks.items
             \/ /\ last'.op = "delete"
                /\ IsArray(tasks) /\ IsArray(tasks')
                /\ tasks'.items = RemoveId(tasks.items, last'.id)]_vars

\* A create while the load is pending, the payload of two tasks replacing it, a delete.
C23_Witness ==
    /\ outcome = "success"
    /\ nPending = 1
    /\ last.op = "delete"
    /\ Len(data.items) = 2
    /\ Len(tasks.items) = 1

\* C24: unmounting Tasks does not cancel the load: when Tasks is unmounted while the
\* load is pending and the provider answers, getTasks still settles, and the step in
\* which it settles still writes the loading flag, and the payload on success.
C24_LateResponseApplied ==
    /\ (tornDownAt \in {"fetch", "json"}) ~> (pc = "done" /\ loading = FALSE)
    /\ [][(~mounted /\ pc # "done" /\ pc' = "done")
            => (loading' = FALSE /\ (outcome' = "success" => tasks' = data'))]_vars

\* Torn down and late response applied.
C24_Witness ==
    /\ tornDownAt = "fetch"
    /\ outcome = "success"
    /\ Len(data.items) = 2
    /\ tasks = data
    /\ loading = FALSE

\* C25: on a successful load the payload is written before the loading flag is cleared:
\* in no state the settling step goes through, its last one included, is loading false
\* while the collection is not the payload, so the View never shows Ready with the
\* list it had before the load.
C25_PayloadBeforeFlag ==
    last.op = "loadSuccess"
        => /\ \A i \in 1..2 :
                LET w == successWrites(last.before, last.loadingBefore, data)[i]
                IN  /\ ~w.loading => w.tasks = data
                    /\ Render(w.tasks, w.loading, draft, FALSE).state = "Ready"
                          => Render(w.tasks, w.loading, draft, FALSE).rows = rowsOf(data)
           /\ ~loading
           /\ tasks = data

\* The collection was empty when two tasks arrived.
C25_Witness ==
    /\ last.op = "loadSuccess"
    /\ last.before = Arr(<<>>)
    /\ Len(data.items) = 2
    /\ View.state = "Ready"
    /\ Len(View.rows) = 2

\* C26: after deleteTask(id) no task of the collection carries id: every record that
\* carried it is gone, so one call (one row activated) removes as many records as
\* carried the id.
C26_DeleteRemovesEveryMatch ==
    last.op = "delete"
        => /\ IsArray(tasks) => \A i \in 1..Len(tasks.items) : idOf(tasks.items[i]) # last.id
           /\ IsArray(last.before) =>
                 Len(tasks.items) = Len(last.before.items)
                     - Cardinality({i \in 1..Len(last.before.items) :
                                       idOf(last.before.items[i]) = last.id})

\* The payload held two tasks with the id 1; activating one row removed both.
C26_Witness ==
    /\ last.op = "delete"
    /\ ui.event = "row"
    /\ last.id = 1
    /\ last.before = Arr(<<Task(1, "m", "", FALSE), Task(1, "m", "", FALSE)>>)
    /\ tasks = Arr(<<>>)

\* s is t with some of its records left out, the others in their order.
RECURSIVE IsSubseq(_, _)
IsSubseq(s, t) ==
    IF s = <<>> THEN TRUE
    ELSE IF t = <<>> THEN FALSE
    ELSE IF Head(s) = Head(t) THEN IsSubseq(Tail(s), Tail(t))
    ELSE IsSubseq(s, Tail(t))

\* C27: createTask and deleteTask leave the loading flag alone and modify no task: the
\* tasks present before and after the call are the same records in the same relative
\* order (create keeps all of them, delete keeps some of them).
C27_CallsModifyNoTask ==
    last.op \in {"create", "delete"}
        => /\ loading = last.loadingBefore
           /\ IF IsArray(last.before)
                 THEN /\ IsArray(tasks)
                      /\ last.op = "create" => IsSubseq(last.before.items, tasks.items)
                      /\ last.op = "delete" => IsSubseq(tasks.items, last.before.items)
                 ELSE tasks = last.before

\* A task of the payload and a created one, both still as they were after another create.
C27_Witness ==
    /\ last.op = "create"
    /\ loading = FALSE
    /\ Len(last.before.items) = 2
    /\ Len(tasks.items) = 3
    /\ IsTask(tasks.items[1])
    /\ IsTask(tasks.items[2])
    /\ tasks.items[1].completed = FALSE
    /\ tasks.items[2].completed = TRUE
    /\ tasks.items[1] = data.items[1]

\* C29: createTask(t) immediately followed by deleteTask of the id just generated
\* leaves the collection exactly as it was before the createTask, when no task carried
\* that id before.
C29_CreateThenDeleteRestores ==
    [][(/\ last.op = "create"
        /\ IsArray(last.before)
        /\ ~HasId(last.before.items, last.id)
        /\ last'.op = "delete"
        /\ last'.id = last.id)
          => tasks' = last.before]_vars

\* The payload's one task, a task created with the id 2, that task deleted.
C29_Witness ==
    /\ last.op = "delete"
    /\ calls = 2
    /\ last.id = 2
    /\ last.before = Arr(<<Task(1, "m", "", FALSE), Task(2, "a", "", TRUE)>>)
    /\ tasks = data
    /\ Len(tasks.items) = 1

\* The calls cs applied one after the other to the sequence s.
RECURSIVE ApplyCalls(_, _)
ApplyCalls(s, cs) ==
    IF cs = <<>> THEN s
    ELSE ApplyCalls(IF Head(cs).op = "create"
                      THEN Append(s, Task(Head(cs).id, Head(cs).title, "", TRUE))
                      ELSE RemoveId(s, Head(cs).id),
                    Tail(cs))

\* C28: createTask and deleteTask calls made back to back with no render in between all
\* take effect, in call order, on the collection of the last render: k creates add k
\* tasks and no update is lost.
C28_NoUpdateLost ==
    IsArray(captured)
        => /\ IsArray(tasks)
           /\ tasks.items = ApplyCalls(captured.items, batch)
           /\ (\A i \in 1..Len(batch) : batch[i].op = "create")
                 => Len(tasks.items) = Len(captured.items) + Len(batch)

\* Two creates in one event, on the one task the payload brought.
C28_Witness ==
    /\ Len(batch) = 2
    /\ batch[1].op = "create"
    /\ batch[2].op = "create"
    /\ Len(captured.items) = 1
    /\ Len(tasks.items) = 3

====
